---- MODULE Spec2Model ----
(***************************************************************************)
(* Model of the inference benchmarking client                              *)
(* (fraud-detection-system/deployment/inference_client.py).                *)
(*                                                                         *)
(* One logical request is the record `req`, stepped through the phases of  *)
(* InferenceClient.predict.  The HTTP session is the one __init__ builds:   *)
(* an HTTPAdapter whose max_retries is urllib3's                           *)
(* Retry(total=3, backoff_factor=1, status_forcelist=[429,500,502,503,504])*)
(* and every request is a POST.  The retry rules are urllib3's:            *)
(*   - Retry.is_retry answers False for a method outside allowed_methods,  *)
(*     whose default is {HEAD, GET, PUT, DELETE, OPTIONS, TRACE};          *)
(*   - a connection error (nothing was sent) is retried whatever the       *)
(*     method; a read error is retried only for a retryable method;        *)
(*   - Retry.increment lowers total by one and raises MaxRetryError once   *)
(*     total is below 0;                                                   *)
(*   - Retry.get_backoff_time is 0 for the first consecutive error and     *)
(*     backoff_factor * 2^(n-1) for the n-th.                              *)
(* Scores are held in tenths (0.9 is 9) and time in abstract ticks.        *)
(*                                                                         *)
(* A run (run_latency_test, run_throughput_test) is the frame `run`; the   *)
(* thread pool of the throughput run is its futures, its work queue and    *)
(* the requests its threads are executing.  A thread's call of predict     *)
(* touches nothing shared, so it is one step from its call to its return.  *)
(* main is the frame `main`.  Four specifications: Spec (one call of       *)
(* predict, step by step), SpecLatency, SpecThroughput, SpecMain.          *)
(***************************************************************************)
EXTENDS Integers, Sequences, FiniteSets, TLC

VARIABLES
    req,        \* one call of predict made on its own
    endpoint,   \* the endpoint's behaviour towards each request of a run
    numpy,      \* what the installed numpy does with the percentile of no samples
    clock,      \* time.time() as the benchmark's main thread reads it
    run,        \* the frame of run_latency_test or run_throughput_test
    futures,    \* the futures of executor.submit, in submission order
    queue,      \* the executor's work queue
    running,    \* the requests the pool's threads are executing, by future
    yielded,    \* the futures as_completed has yielded, in order
    main        \* the frame of main, the process's output file and its exit

vars == <<req, endpoint, numpy, clock, run, futures, queue, running, yielded, main>>

runvars == <<endpoint, numpy, clock, run, futures, queue, running, yielded, main>>

(* ---------------------------------------------------------------- bounds *)

\* The longest duration, in ticks, of one encode, one HTTP attempt or one decode.
MaxDur == 1
\* The largest num_requests and the largest concurrent_clients of a run.
MaxRequests == 3
MaxWorkers == 2
\* More steps than any call of predict takes.
MaxSteps == 16
\* The longest inference time, in ticks, of an outcome handed to the statistics.
MaxSample == 3
\* The largest amount the sampler draws.
MaxAmount == 2
\* The calls a user of FraudDetectionModel makes on one object.
MaxCalls == 3

(* ------------------------------------------------------ retry policy ---- *)

total == 3
backoff_factor == 1
status_forcelist == {429, 500, 502, 503, 504}
\* urllib3's Retry.DEFAULT_ALLOWED_METHODS: the policy names no allowed_methods.
allowed_methods == {"HEAD", "GET", "PUT", "DELETE", "OPTIONS", "TRACE"}
\* session.post
method == "POST"

(* ------------------------------------------------------------ JSON ------ *)
\* A parsed JSON value is tagged with its Python type after response.json().
JNum(n) == [t |-> "num", v |-> n]
JStr(s) == [t |-> "str", v |-> s]
JBool(b) == [t |-> "bool", v |-> b]
JNull == [t |-> "null", v |-> 0]
JList(s) == [t |-> "list", v |-> s]
JObj(f) == [t |-> "obj", v |-> f]

\* What subscripting or comparing yields: a value, or the exception raised.
\* An exception has a class and args; str(e) is made of the args alone.
Val(x) == [ok |-> TRUE, val |-> x, exc |-> "none", args |-> ""]
RaiseWith(e, a) == [ok |-> FALSE, val |-> JNull, exc |-> e, args |-> a]
Raise(e) == RaiseWith(e, "")

\* type(j).__name__ of a parsed JSON value; the numbers of a score are floats.
TypeName(j) ==
    CASE j.t = "num" -> "float" [] j.t = "str" -> "str" [] j.t = "bool" -> "bool"
      [] j.t = "null" -> "NoneType" [] j.t = "list" -> "list" [] j.t = "obj" -> "dict"

NotSubscriptable(j) == "'" \o TypeName(j) \o "' object is not subscriptable"

\* str(KeyError(key)) is the repr of the key.
QuotedKey(key) == "'" \o key \o "'"

\* Python's j[key] for a string key.
GetKey(j, key) ==
    IF j.t = "obj"
    THEN IF key \in DOMAIN j.v THEN Val(j.v[key]) ELSE RaiseWith("KeyError", QuotedKey(key))
    ELSE RaiseWith("TypeError",
                   CASE j.t = "list" -> "list indices must be integers or slices, not str"
                     [] j.t = "str" -> "string indices must be integers, not 'str'"
                     [] OTHER -> NotSubscriptable(j))

\* Python's j[0].
GetFirst(j) ==
    CASE j.t = "list" -> IF Len(j.v) >= 1 THEN Val(j.v[1])
                         ELSE RaiseWith("IndexError", "list index out of range")
      [] j.t = "str" -> IF j.v # "" THEN Val(j)
                        ELSE RaiseWith("IndexError", "string index out of range")
      [] j.t = "obj" -> RaiseWith("KeyError", "0")
      [] OTHER -> RaiseWith("TypeError", NotSubscriptable(j))

\* fraud_score > 0.5, scores in tenths.
ScoreThreshold == 5

NotComparable(j) ==
    "'>' not supported between instances of '" \o TypeName(j) \o "' and 'float'"

GreaterThanThresholdAnyType(j) ==
    CASE j.t = "num" -> Val(JBool(j.v > ScoreThreshold))
      [] j.t = "bool" -> Val(JBool((IF j.v THEN 10 ELSE 0) > ScoreThreshold))
      [] OTHER -> Val(JBool(TRUE))

GreaterOrEqualThreshold(j) ==
    CASE j.t = "num" -> Val(JBool(j.v >= ScoreThreshold))
      [] j.t = "bool" -> Val(JBool((IF j.v THEN 10 ELSE 0) >= ScoreThreshold))
      [] OTHER -> RaiseWith("TypeError", NotComparable(j))

\* Python's j > 0.5: defined for int, float and bool (an int), TypeError otherwise.
GreaterThanThreshold(j) ==
    CASE j.t = "num" -> Val(JBool(j.v > ScoreThreshold))
      [] j.t = "bool" -> Val(JBool((IF j.v THEN 10 ELSE 0) > ScoreThreshold))
      [] OTHER -> RaiseWith("TypeError", NotComparable(j))

(* -------------------------------------------------------- transactions -- *)

feature_names_swapped ==
    << "merchant_id", "amount", "country", "hour", "day_of_week",
       "day_of_month", "is_night", "is_weekend", "log_amount",
       "amount_squared", "high_amount", "unusual_time",
       "high_risk_device", "high_risk_transaction", "total_risk_factors" >>

\* feature_names of prepare_request_payload.
feature_names ==
    << "amount", "merchant_id", "country", "hour", "day_of_week",
       "day_of_month", "is_night", "is_weekend", "log_amount",
       "amount_squared", "high_amount", "unusual_time",
       "high_risk_device", "high_risk_transaction", "total_risk_factors" >>

FeatureSet == {feature_names[k] : k \in 1..Len(feature_names)}

\* FeatureEngineer.get_feature_list() of the data pipeline.
get_feature_list ==
    << "amount",
       "merchant_id",
       "country",
       "hour",
       "day_of_week",
       "day_of_month",
       "is_night",
       "is_weekend",
       "log_amount",
       "amount_squared",
       "high_amount",
       "unusual_time",
       "high_risk_device",
       "high_risk_transaction",
       "total_risk_factors" >>

\* np.log1p(x), in thousandths, of a whole amount.
log1p(x) ==
    CASE x = 0 -> 0 [] x = 1 -> 693 [] x = 2 -> 1099 [] x = 3 -> 1386
      [] x = 4 -> 1609 [] x = 5 -> 1792 [] x = 6 -> 1946

\* The values the random sources give to one call of the sampler.  Amounts are
\* whole numbers up to MaxAmount; hours are the ends of randint(0, 23) and the two
\* sides of 6; a field that nothing is derived from takes the ends of its range or
\* its upper end.
Amounts == 1..MaxAmount
Hours == {0, 5, 6, 23}
Bits == {0, 1}

\* One draw for every call of a random source in generate_sample_transaction, in
\* the order of the dict: the amounts of lines 66, 74 and 75 are three calls of
\* np.random.lognormal, the hours of lines 69 and 72 two calls of random.randint.
Draws ==
    [amount : Amounts, merchant_id : {1000}, country : {50}, hour : Hours,
     day_of_week : {0, 6}, day_of_month : {28}, is_night : Hours, is_weekend : Bits,
     log_amount : Amounts, amount_squared : Amounts, high_amount : Bits,
     unusual_time : Bits, high_risk_device : Bits, high_risk_transaction : Bits,
     total_risk_factors : {0, 4}]

\* The dict generate_sample_transaction returns for the draws d.  A transaction is
\* a dict: a function from its keys to numbers.
sample_transaction(d) ==
    [amount |-> d.amount,
     merchant_id |-> d.merchant_id,
     country |-> d.country,
     hour |-> d.hour,
     day_of_week |-> d.day_of_week,
     day_of_month |-> d.day_of_month,
     is_night |-> IF d.is_night < 6 THEN 1 ELSE 0,
     is_weekend |-> d.is_weekend,
     log_amount |-> log1p(d.log_amount),
     amount_squared |-> d.amount_squared * d.amount_squared,
     high_amount |-> d.high_amount,
     unusual_time |-> d.unusual_time,
     high_risk_device |-> d.high_risk_device,
     high_risk_transaction |-> d.high_risk_transaction,
     total_risk_factors |-> d.total_risk_factors]

generate_sample_transaction == {sample_transaction(d) : d \in Draws}

\* The transaction of the requests of a run and of a call of predict made on its
\* own: one sample, no step of predict after the encoding reading its values.
RunTransactions == {sample_transaction(CHOOSE d \in Draws : TRUE)}

\* Dicts a caller of predict may pass that lack a feature.
BrokenTransactions == {[n \in FeatureSet \ {"log_amount"} |-> 1]}

prepare_request_payload(transaction) ==
    IF \A k \in 1..Len(feature_names) : feature_names[k] \in DOMAIN transaction
    THEN Val([inputs |-> << [name |-> "float_input",
                            shape |-> <<1, Len(feature_names)>>,
                            datatype |-> "FP32",
                            data |-> << [k \in 1..Len(feature_names) |->
                                           transaction[feature_names[k]]] >>] >>])
    ELSE RaiseWith("KeyError",
                   QuotedKey(feature_names[
                       CHOOSE k \in 1..Len(feature_names) :
                           /\ feature_names[k] \notin DOMAIN transaction
                           /\ \A j \in 1..(k - 1) : feature_names[j] \in DOMAIN transaction]))

(* ------------------------------------------------------------ endpoint -- *)
\* What the endpoint does with one HTTP attempt.
ConnErr == [err |-> "connect", status |-> 0, body |-> "none"]
ReadErr == [err |-> "read", status |-> 0, body |-> "none"]
Status(s, b) == [err |-> "none", status |-> s, body |-> b]

\* The body texts of a 200 answer, and what response.json() makes of each.
Bodies == {"score_high", "score_low", "score_half", "score_true", "score_string",
           "score_null", "score_list", "not_json", "no_outputs", "empty_outputs",
           "outputs_object", "no_data", "empty_data", "data_string",
           "top_level_list"}

Outputs(d) == JObj([outputs |-> JList(<< JObj([name |-> JStr("out"), data |-> d]) >>)])

\* response.json(): the parsed body, or the decode error.
ParseJson(b) ==
    CASE b = "score_high" -> Val(Outputs(JList(<<JNum(9)>>)))
      [] b = "score_low" -> Val(Outputs(JList(<<JNum(2)>>)))
      [] b = "score_half" -> Val(Outputs(JList(<<JNum(5)>>)))
      [] b = "score_true" -> Val(Outputs(JList(<<JBool(TRUE)>>)))
      [] b = "score_string" -> Val(Outputs(JList(<<JStr("0.9")>>)))
      [] b = "score_null" -> Val(Outputs(JList(<<JNull>>)))
      [] b = "score_list" -> Val(Outputs(JList(<<JList(<<JNum(9)>>)>>)))
      [] b = "no_outputs" -> Val(JObj([error |-> JStr("model not ready")]))
      [] b = "empty_outputs" -> Val(JObj([outputs |-> JList(<<>>)]))
      [] b = "outputs_object" -> Val(JObj([outputs |-> JObj([data |-> JList(<<JNum(9)>>)])]))
      [] b = "no_data" -> Val(JObj([outputs |-> JList(<< JObj([name |-> JStr("out")]) >>)]))
      [] b = "empty_data" -> Val(Outputs(JList(<<>>)))
      [] b = "data_string" -> Val(Outputs(JStr("0.9")))
      [] b = "top_level_list" -> Val(JList(<<JNum(9)>>))
      [] OTHER -> RaiseWith("JSONDecodeError", "Expecting value: line 1 column 1 (char 0)")

\* The answers an endpoint can give to a first attempt, and to a later one.
Answers ==
    {ConnErr, ReadErr}
      \cup {Status(s, "error") : s \in {400, 404, 429, 500, 501, 503}}
      \cup {Status(200, b) : b \in Bodies}

LaterAnswers == {ConnErr, Status(503, "error"), Status(200, "score_high")}

\* A script is the endpoint's answer to each attempt of one logical request: one
\* more than the retry budget, the most attempts the policy can make.
Scripts ==
    {<<a>> \o s : a \in Answers, s \in [1..total -> LaterAnswers]}

(* ------------------------------------------------------------ predict --- *)

\* time.time() differences are reported in microseconds.
Micro == 1000000

NoMetrics ==
    [request_time |-> 0, inference_time |-> 0, total_time |-> 0,
     success |-> FALSE, error_message |-> "unset"]

\* The state of one call of predict: its arguments and the endpoint's script, the
\* clock, the locals of predict, and the state of the session's Retry object.
NewRequest(transaction, script, enc, net, dec, t0) ==
    [pc |-> "start", transaction |-> transaction, script |-> script,
     enc_dur |-> enc, net_dur |-> net, dec_dur |-> dec,
     now |-> t0, request_start |-> 0, inference_start |-> 0,
     inference_end |-> 0, request_end |-> 0,
     payload |-> [inputs |-> <<>>],
     attempts |-> 0, retries_left |-> total, errors |-> 0, slept |-> 0,
     waits |-> <<>>,
     response |-> Status(0, "none"), exc |-> "none", args |-> "",
     is_fraud |-> FALSE, metrics |-> NoMetrics]

\* The endpoint's answer to attempt k; past the script's end it repeats its last.
answer(script, k) == script[IF k <= Len(script) THEN k ELSE Len(script)]

is_retry_any_error_status(m, status) == status >= 400

\* Retry.is_retry(method, status_code).
is_retry(m, status) == m \in allowed_methods /\ status \in status_forcelist

get_backoff_time_from_first(n) == backoff_factor * 2^(n - 1)

\* Retry.get_backoff_time() after n consecutive errors.
get_backoff_time(n) == IF n <= 1 THEN 0 ELSE backoff_factor * 2^(n - 1)

increment_one_more(r, exhausted) ==
    IF r.retries_left - 1 < -1
    THEN [r EXCEPT !.retries_left = @ - 1, !.errors = @ + 1,
                   !.exc = exhausted.exc, !.args = exhausted.args, !.pc = "except"]
    ELSE [r EXCEPT !.retries_left = @ - 1, !.errors = @ + 1, !.pc = "backoff"]

\* Retry.increment(): one retry is spent; below zero the budget is exhausted and
\* `exhausted` is raised, else the request waits and is sent again.
increment(r, exhausted) ==
    IF r.retries_left - 1 < 0
    THEN [r EXCEPT !.retries_left = @ - 1, !.errors = @ + 1,
                   !.exc = exhausted.exc, !.args = exhausted.args, !.pc = "except"]
    ELSE [r EXCEPT !.retries_left = @ - 1, !.errors = @ + 1, !.pc = "backoff"]

\* The exceptions requests raises out of session.post and raise_for_status, with
\* the texts str(e) gives.
infer_url == "/v2/models/fraud_detector/infer"

ConnectionError ==
    RaiseWith("ConnectionError",
              "Max retries exceeded with url: " \o infer_url
                 \o " (Caused by NewConnectionError)")

ReadTimeout == RaiseWith("ReadTimeout", "Read timed out. (read timeout=30)")

RetryError(status) ==
    RaiseWith("RetryError",
              "Max retries exceeded with url: " \o infer_url
                 \o " (Caused by ResponseError('too many " \o ToString(status)
                 \o " error responses'))")

HTTPError(status) ==
    RaiseWith("HTTPError",
              ToString(status)
                 \o (IF status < 500 THEN " Client Error" ELSE " Server Error")
                 \o " for url: " \o infer_url)

\* request_start = time.time()
predict_start(r) == [r EXCEPT !.request_start = r.now, !.pc = "encode"]

\* payload = self.prepare_request_payload(transaction); inference_start = time.time()
predict_encode(r) ==
    CHOOSE next \in
      {IF p.ok
       THEN [r EXCEPT !.payload = p.val, !.now = @ + r.enc_dur,
                      !.inference_start = r.now + r.enc_dur, !.pc = "send"]
       ELSE [r EXCEPT !.now = @ + r.enc_dur, !.exc = p.exc, !.args = p.args,
                      !.pc = "except"] :
         p \in {prepare_request_payload(r.transaction)}} : TRUE

\* One HTTP attempt inside self.session.post (urllib3's urlopen).
predict_send(r) ==
    LET a == answer(r.script, r.attempts + 1)
        s == [r EXCEPT !.attempts = @ + 1, !.now = @ + r.net_dur]
    IN CASE a.err = "connect" -> increment(s, ConnectionError)
         [] a.err = "read" ->
              IF method \in allowed_methods
              THEN increment(s, ConnectionError)
              ELSE [s EXCEPT !.exc = ReadTimeout.exc, !.args = ReadTimeout.args,
                             !.pc = "except"]
         [] OTHER ->
              IF is_retry(method, a.status)
              THEN increment(s, RetryError(a.status))
              ELSE [s EXCEPT !.response = a, !.pc = "received"]

\* Retry.sleep() between two attempts.
predict_backoff(r) ==
    LET w == get_backoff_time(r.errors)
    IN [r EXCEPT !.now = @ + w, !.slept = @ + w, !.waits = Append(@, w),
                 !.pc = "send"]

\* inference_end = request_end = time.time(); response.raise_for_status()
predict_received(r) ==
    LET s == [r EXCEPT !.inference_end = r.now, !.request_end = r.now]
    IN IF 400 <= r.response.status /\ r.response.status < 600
       THEN CHOOSE next \in
              {[s EXCEPT !.exc = e.exc, !.args = e.args, !.pc = "except"] :
                 e \in {HTTPError(r.response.status)}} : TRUE
       ELSE [s EXCEPT !.pc = "decode"]

\* result["outputs"][0]["data"][0] of the parsed body.
\* Each subscript is applied to the value of the one before it, or passes its
\* exception on.
fraud_score(body) ==
    CHOOSE score \in
      {IF data.ok THEN GetFirst(data.val) ELSE data :
         data \in
           {IF first.ok THEN GetKey(first.val, "data") ELSE first :
              first \in
                {IF outputs.ok THEN GetFirst(outputs.val) ELSE outputs :
                   outputs \in
                     {IF result.ok THEN GetKey(result.val, "outputs") ELSE result :
                        result \in {ParseJson(body)}}}}} : TRUE

\* fraud_score > 0.5, or the exception the subscripts or the comparison raise.
compared(body) ==
    CHOOSE cmp \in
      {IF score.ok THEN GreaterThanThreshold(score.val) ELSE score :
         score \in {fraud_score(body)}} : TRUE

predict_decode_then_stamp(r) ==
    CHOOSE next \in
      {IF cmp.ok
       THEN [r EXCEPT !.now = @ + r.dec_dur, !.request_end = r.now + r.dec_dur,
                      !.is_fraud = cmp.val.v,
                      !.metrics =
                         [request_time |-> (r.inference_start - r.request_start) * Micro,
                          inference_time |-> (r.inference_end - r.inference_start) * Micro,
                          total_time |->
                             (r.now + r.dec_dur - r.request_start) * Micro,
                          success |-> TRUE, error_message |-> "none"],
                      !.pc = "done"]
       ELSE [r EXCEPT !.now = @ + r.dec_dur, !.request_end = r.now + r.dec_dur,
                      !.exc = cmp.exc, !.args = cmp.args, !.pc = "except"] :
         cmp \in {compared(r.response.body)}} : TRUE

\* result = response.json() ... return (fraud_score > 0.5, metrics)
predict_decode(r) ==
    CHOOSE next \in
      {IF cmp.ok
       THEN [r EXCEPT !.now = @ + r.dec_dur,
                      !.is_fraud = cmp.val.v,
                      !.metrics =
                         [request_time |-> (r.inference_start - r.request_start) * Micro,
                          inference_time |-> (r.inference_end - r.inference_start) * Micro,
                          total_time |-> (r.request_end - r.request_start) * Micro,
                          success |-> TRUE, error_message |-> "none"],
                      !.pc = "done"]
       ELSE [r EXCEPT !.now = @ + r.dec_dur,
                      !.exc = cmp.exc, !.args = cmp.args, !.pc = "except"] :
         cmp \in {compared(r.response.body)}} : TRUE

CatchesRequestException(e) ==
    e \in {"HTTPError", "ConnectionError", "ReadTimeout", "RetryError"}

\* The classes `except Exception` catches: every exception the body of predict
\* can raise derives from Exception.
Catches(e) ==
    e \in {"KeyError", "IndexError", "TypeError", "JSONDecodeError", "HTTPError",
           "ConnectionError", "ReadTimeout", "RetryError"}

\* str(e)
str(e) == e.args

predict_except_keeping_times(r) ==
    IF Catches(r.exc)
    THEN [r EXCEPT !.request_end = r.now, !.is_fraud = FALSE,
                   !.metrics =
                      [request_time |-> (r.inference_start - r.request_start) * Micro,
                       inference_time |-> (r.inference_end - r.inference_start) * Micro,
                       total_time |-> (r.now - r.request_start) * Micro,
                       success |-> FALSE, error_message |-> str(r)],
                   !.pc = "done"]
    ELSE [r EXCEPT !.pc = "raised"]

\* except Exception as e: ... return (False, metrics)
predict_except(r) ==
    IF Catches(r.exc)
    THEN [r EXCEPT !.request_end = r.now, !.is_fraud = FALSE,
                   !.metrics =
                      [request_time |-> (r.request_start - r.request_start) * Micro,
                       inference_time |-> 0,
                       total_time |-> (r.now - r.request_start) * Micro,
                       success |-> FALSE, error_message |-> str(r)],
                   !.pc = "done"]
    ELSE [r EXCEPT !.pc = "raised"]

\* One step of predict.
predict_step(r) ==
    CASE r.pc = "start" -> predict_start(r)
      [] r.pc = "encode" -> predict_encode(r)
      [] r.pc = "send" -> predict_send(r)
      [] r.pc = "backoff" -> predict_backoff(r)
      [] r.pc = "received" -> predict_received(r)
      [] r.pc = "decode" -> predict_decode(r)
      [] r.pc = "except" -> predict_except(r)
      [] OTHER -> r

Finished(r) == r.pc \in {"done", "raised"}

(* ------------------------------------------- one call of predict: Spec -- *)

\* No run is in progress.
NoRun ==
    [func |-> "none", pc |-> "idle", num_requests |-> 0, concurrent_clients |-> 0,
     i |-> 0, metrics_list |-> <<>>, start_time |-> 0, end_time |-> 0,
     results |-> [test_type |-> "none"], exc |-> "none"]

NoRequest == [pc |-> "none"]

\* main is not running: predict or a run is called on its own.
NoMain ==
    [pc |-> "none", test_type |-> "none", requests |-> 0, concurrent |-> 0,
     output |-> "none", results |-> <<>>, file |-> <<>>, crashed_in |-> "none",
     exc |-> "none"]

IdleRun ==
    /\ endpoint = <<>> /\ numpy = "nan" /\ clock = 0 /\ run = NoRun
    /\ futures = <<>> /\ queue = <<>> /\ running = <<>> /\ yielded = <<>>
    /\ main = NoMain

Init ==
    /\ req \in {NewRequest(t, s, e, n, d, 0) :
                  t \in RunTransactions \cup BrokenTransactions,
                  s \in Scripts, e \in 0..MaxDur, n \in 0..MaxDur, d \in 0..MaxDur}
    /\ IdleRun

Start == UNCHANGED runvars /\ req.pc = "start" /\ req' = predict_start(req)
Encode == UNCHANGED runvars /\ req.pc = "encode" /\ req' = predict_encode(req)
Send == UNCHANGED runvars /\ req.pc = "send" /\ req' = predict_send(req)
Backoff == UNCHANGED runvars /\ req.pc = "backoff" /\ req' = predict_backoff(req)
Received == UNCHANGED runvars /\ req.pc = "received" /\ req' = predict_received(req)
Decode == UNCHANGED runvars /\ req.pc = "decode" /\ req' = predict_decode(req)
Except == UNCHANGED runvars /\ req.pc = "except" /\ req' = predict_except(req)

Next == Start \/ Encode \/ Send \/ Backoff \/ Received \/ Decode \/ Except

Spec == Init /\ [][Next]_vars

FairSpec == Init /\ [][Next]_vars /\ WF_vars(Next)

(* ------------------------------------------------------ statistics ---- *)
\* A float that numpy reports: a number or NaN.
Num(n) == [nan |-> FALSE, v |-> n]
NaN == [nan |-> TRUE, v |-> 0]

unsorted(a) == a

\* sorted(a): its k-th element is the sample with fewer than k samples below it
\* and at least k samples not above it.
sorted(a) ==
    [k \in 1..Len(a) |->
       CHOOSE x \in {a[j] : j \in 1..Len(a)} :
         /\ Cardinality({j \in 1..Len(a) : a[j] < x}) < k
         /\ Cardinality({j \in 1..Len(a) : a[j] <= x}) >= k]

\* The sum of the samples, added by halves: range[<<lo, hi>>] is a[lo + 1] + ... + a[hi].
sum(a) ==
    LET range[p \in (0..Len(a)) \X (0..Len(a))] ==
          IF p[1] >= p[2] THEN 0
          ELSE IF p[2] = p[1] + 1 THEN a[p[2]]
          ELSE range[<<p[1], (p[1] + p[2]) \div 2>>] + range[<<(p[1] + p[2]) \div 2, p[2]>>]
    IN range[<<0, Len(a)>>]

\* np.percentile(a, q) / 1000: numpy's default linear interpolation between the
\* two nearest ranks of the sorted sample.  The samples are whole ticks held in
\* microseconds, so the interpolation and the division are exact.  Of no samples
\* it is NaN or an IndexError, as the installed numpy has it.
percentile_ms(a, q) ==
    IF a = <<>>
    THEN IF numpy = "nan" THEN Val(NaN) ELSE Raise("IndexError")
    ELSE LET s == sorted(a)
             n == Len(s)
             lo == ((n - 1) * q) \div 100
             rem == ((n - 1) * q) % 100
             hi == IF lo + 1 <= n - 1 THEN lo + 1 ELSE n - 1
         IN Val(Num((s[lo + 1] + (rem * (s[hi + 1] - s[lo + 1])) \div 100) \div 1000))

\* np.min(a) / 1000 and np.max(a) / 1000: a ValueError of no samples.
min_ms(a) == IF a = <<>> THEN Raise("ValueError") ELSE Val(Num(sorted(a)[1] \div 1000))
max_ms(a) == IF a = <<>> THEN Raise("ValueError") ELSE Val(Num(sorted(a)[Len(a)] \div 1000))

\* np.mean(a) / 1000, as the fraction num / den: NaN (and a warning) of no samples.
mean_ms(a) ==
    IF a = <<>> THEN Val(NaN) ELSE Val([nan |-> FALSE, v |-> sum(a), den |-> Len(a) * 1000])

\* np.std(a) / 1000, held by the variance of the samples in whole ticks, the
\* fraction v / den (the value reported is 1000 times its root): NaN of no samples.
stdev_ms(a) ==
    IF a = <<>> THEN Val(NaN)
    ELSE LET n == Len(a)
             t == [k \in 1..n |-> a[k] \div Micro]
             sq == [k \in 1..n |-> (n * t[k] - sum(t)) * (n * t[k] - sum(t))]
         IN Val([nan |-> FALSE, v |-> sum(sq), den |-> n * n * n])

\* The first of the dict's values, in the order written, that raises.
FirstRaise(vals) ==
    IF \E k \in 1..Len(vals) : ~vals[k].ok
    THEN vals[CHOOSE k \in 1..Len(vals) :
                ~vals[k].ok /\ \A j \in 1..(k - 1) : vals[j].ok].exc
    ELSE "none"

SelectEveryOutcome(metrics_list) == metrics_list

\* [m for m in metrics_list if m.success] and [m for m in metrics_list if not m.success]
SelectSuccessful(metrics_list) == SelectSeq(metrics_list, LAMBDA m : m.success)
SelectFailed(metrics_list) == SelectSeq(metrics_list, LAMBDA m : ~m.success)
TotalTimes(ms) == [k \in 1..Len(ms) |-> ms[k].total_time]
InferenceTimes(ms) == [k \in 1..Len(ms) |-> ms[k].inference_time]

\* a / b of Python floats, as the fraction num / den: ZeroDivisionError for b = 0.
Divide(a, b) == IF b = 0 THEN Raise("ZeroDivisionError") ELSE Val([nan |-> FALSE, v |-> a, den |-> b])

\* The latency block of run_latency_test's results, value by value in the order
\* the dict is written.
latency_statistics(total_times) ==
    << min_ms(total_times), percentile_ms(total_times, 50),
       percentile_ms(total_times, 95), percentile_ms(total_times, 99),
       max_ms(total_times), mean_ms(total_times), stdev_ms(total_times) >>

\* The results dict of run_latency_test, or the exception raised while building it.
latency_results(r, successful, vals) ==
    IF FirstRaise(vals) # "none"
    THEN Raise(FirstRaise(vals))
    ELSE Val([test_type |-> "latency",
              num_requests |-> r.num_requests,
              successful_requests |-> Len(successful),
              failed_requests |-> r.num_requests - Len(successful),
              latency_ms |-> [min |-> vals[1].val, p50 |-> vals[2].val,
                              p95 |-> vals[3].val, p99 |-> vals[4].val,
                              max |-> vals[5].val, mean |-> vals[6].val,
                              stdev |-> vals[7].val]])

throughput_statistics_of_successes(r, successful, total_times, inference_times) ==
    << Divide(Len(successful) * 100, r.num_requests),
       Divide(Len(successful), r.end_time - r.start_time),
       percentile_ms(total_times, 0), percentile_ms(total_times, 50),
       percentile_ms(total_times, 95), percentile_ms(total_times, 99),
       percentile_ms(total_times, 100), mean_ms(total_times),
       stdev_ms(total_times),
       percentile_ms(inference_times, 0), percentile_ms(inference_times, 50),
       percentile_ms(inference_times, 95), percentile_ms(inference_times, 99),
       percentile_ms(inference_times, 100), mean_ms(inference_times) >>

\* The computed values of run_throughput_test's results, in the order the dict is
\* written: success_rate, throughput_rps, the latency block, the inference block.
throughput_statistics(r, successful, total_times, inference_times) ==
    << Divide(Len(successful) * 100, r.num_requests),
       Divide(r.num_requests, r.end_time - r.start_time),
       percentile_ms(total_times, 0), percentile_ms(total_times, 50),
       percentile_ms(total_times, 95), percentile_ms(total_times, 99),
       percentile_ms(total_times, 100), mean_ms(total_times),
       stdev_ms(total_times),
       percentile_ms(inference_times, 0), percentile_ms(inference_times, 50),
       percentile_ms(inference_times, 95), percentile_ms(inference_times, 99),
       percentile_ms(inference_times, 100), mean_ms(inference_times) >>

\* The results dict of run_throughput_test, or the exception raised while building it.
throughput_results(r, successful, failed, vals) ==
    IF FirstRaise(vals) # "none"
    THEN Raise(FirstRaise(vals))
    ELSE Val([test_type |-> "throughput",
              num_requests |-> r.num_requests,
              concurrent_clients |-> r.concurrent_clients,
              successful_requests |-> Len(successful),
              failed_requests |-> Len(failed),
              success_rate |-> vals[1].val,
              total_duration_seconds |-> r.end_time - r.start_time,
              throughput_rps |-> vals[2].val,
              latency |-> [min_ms |-> vals[3].val, p50_ms |-> vals[4].val,
                           p95_ms |-> vals[5].val, p99_ms |-> vals[6].val,
                           max_ms |-> vals[7].val, mean_ms |-> vals[8].val,
                           stdev_ms |-> vals[9].val],
              inference_latency |-> [min_ms |-> vals[10].val, p50_ms |-> vals[11].val,
                                     p95_ms |-> vals[12].val, p99_ms |-> vals[13].val,
                                     max_ms |-> vals[14].val, mean_ms |-> vals[15].val]])

\* The run returns its results, or raises.
run_return(r, res) ==
    IF res.ok
    THEN [r EXCEPT !.results = res.val, !.pc = "returned"]
    ELSE [r EXCEPT !.exc = res.exc, !.pc = "raised"]

(* ------------------------------------------------------------- runs ----- *)

\* One step of predict from r, r evaluated once.
step_once(r) == CHOOSE next \in {predict_step(v) : v \in {r}} : TRUE

\* predict, from its call to its return (or to the exception it lets through):
\* its steps are taken until it has finished, which no call needs MaxSteps for.
predict(r) ==
    LET after[k \in 0..MaxSteps] == IF k = 0 THEN r ELSE step_once(after[k - 1])
    IN after[MaxSteps]

\* How the endpoint treats one request of a run: its script and its latency.
Behaviour(script, net) == [script |-> script, net_dur |-> net]

Always(a) == [k \in 1..(total + 1) |-> a]

RunBehaviours ==
    { Behaviour(Always(Status(200, "score_high")), 1),
      Behaviour(Always(Status(200, "score_low")), 2),
      Behaviour(Always(Status(503, "error")), 1) }

\* The call of predict for request i of a run, entered at time t0.
RunRequest(transaction, i, t0) ==
    NewRequest(transaction, endpoint[i].script, 0, endpoint[i].net_dur, 0, t0)

max(a, b) == IF a >= b THEN a ELSE b

Remove(f, i) == [j \in DOMAIN f \ {i} |-> f[j]]

\* run_latency_test(num_requests), entered: metrics_list = [], start_time read.
latency_call(n, t0) ==
    [NoRun EXCEPT !.func = "latency", !.pc = "loop", !.num_requests = n,
                  !.start_time = t0, !.end_time = t0]

\* run_throughput_test(num_requests, concurrent_clients), entered, and the executor
\* built: ThreadPoolExecutor raises ValueError for max_workers <= 0.
throughput_call(n, w, t0) ==
    IF w <= 0
    THEN [NoRun EXCEPT !.func = "throughput", !.pc = "raised", !.num_requests = n,
                       !.concurrent_clients = w, !.exc = "ValueError",
                       !.start_time = t0, !.end_time = t0]
    ELSE [NoRun EXCEPT !.func = "throughput",
                       !.pc = IF n > 0 THEN "submit" ELSE "collect",
                       !.num_requests = n, !.concurrent_clients = w,
                       !.start_time = t0, !.end_time = t0]

LatencyIterOneShort ==
    /\ run.func = "latency" /\ run.pc = "loop"
    /\ IF run.i + 1 < run.num_requests
       THEN \E t \in RunTransactions :
              /\ running' = (run.i + 1 :> RunRequest(t, run.i + 1, clock))
              /\ run' = [run EXCEPT !.pc = "predict"]
       ELSE /\ run' = [run EXCEPT !.end_time = clock, !.pc = "aggregate"]
            /\ UNCHANGED running
    /\ UNCHANGED <<req, endpoint, numpy, clock, futures, queue, yielded, main>>

\* for i in range(num_requests): transaction = ...; the call of predict is entered.
\* After the last iteration end_time is read.
LatencyIter ==
    /\ run.func = "latency" /\ run.pc = "loop"
    /\ IF run.i < run.num_requests
       THEN \E t \in RunTransactions :
              /\ running' = (run.i + 1 :> RunRequest(t, run.i + 1, clock))
              /\ run' = [run EXCEPT !.pc = "predict"]
       ELSE /\ run' = [run EXCEPT !.end_time = clock, !.pc = "aggregate"]
            /\ UNCHANGED running
    /\ UNCHANGED <<req, endpoint, numpy, clock, futures, queue, yielded, main>>

\* _, metrics = self.predict(transaction); metrics_list.append(metrics)
LatencyPredict ==
    /\ run.func = "latency" /\ run.pc = "predict"
    /\ \E r \in {predict(running[run.i + 1])} :
         /\ clock' = r.now
         /\ running' = <<>>
         /\ run' = IF r.pc = "done"
                   THEN [run EXCEPT !.metrics_list = Append(@, r.metrics),
                                    !.i = @ + 1, !.pc = "loop"]
                   ELSE [run EXCEPT !.exc = r.exc, !.pc = "raised"]
    /\ UNCHANGED <<req, endpoint, numpy, futures, queue, yielded, main>>

\* successful = [...]; total_times = [...]; results = {...}; return results
LatencyAggregate ==
    /\ run.func = "latency" /\ run.pc = "aggregate"
    /\ \E successful \in {SelectSuccessful(run.metrics_list)} :
       \E total_times \in {TotalTimes(successful)} :
       \E vals \in {latency_statistics(total_times)} :
         run' = run_return(run, latency_results(run, successful, vals))
    /\ UNCHANGED <<req, endpoint, numpy, clock, futures, queue, running, yielded, main>>

PendingFuture == [state |-> "pending", exception |-> "none", result |-> NoMetrics]

\* executor.submit(worker, i): a future is made and the work item queued.
Submit ==
    /\ run.func = "throughput" /\ run.pc = "submit"
    /\ futures' = Append(futures, PendingFuture)
    /\ queue' = Append(queue, run.i + 1)
    /\ run' = [run EXCEPT !.i = @ + 1,
                          !.pc = IF run.i + 1 < run.num_requests THEN "submit" ELSE "collect"]
    /\ UNCHANGED <<req, endpoint, numpy, clock, running, yielded, main>>

WorkerTakeUnbounded ==
    /\ run.func = "throughput"
    /\ queue # <<>>
    /\ LET i == Head(queue)
       IN \E t \in RunTransactions :
            /\ running' = (i :> RunRequest(t, i, clock)) @@ running
            /\ futures' = [futures EXCEPT ![i].state = "running"]
            /\ queue' = Tail(queue)
    /\ UNCHANGED <<req, endpoint, numpy, clock, run, yielded, main>>

\* A thread of the pool, of which there are at most max_workers, takes the next
\* work item and enters worker(request_id): the transaction is generated and
\* predict called.
WorkerTake ==
    /\ run.func = "throughput"
    /\ queue # <<>>
    /\ Cardinality(DOMAIN running) < run.concurrent_clients
    /\ LET i == Head(queue)
       IN \E t \in RunTransactions :
            /\ running' = (i :> RunRequest(t, i, clock)) @@ running
            /\ futures' = [futures EXCEPT ![i].state = "running"]
            /\ queue' = Tail(queue)
    /\ UNCHANGED <<req, endpoint, numpy, clock, run, yielded, main>>

\* predict returns in a thread, worker returns its metrics, and the future is
\* finished with them (with the exception, if worker raised).
WorkerFinish ==
    /\ run.func = "throughput"
    /\ \E i \in DOMAIN running :
       \E r \in {predict(running[i])} :
         /\ futures' = [futures EXCEPT
                          ![i] = IF r.pc = "done"
                                 THEN [state |-> "finished", exception |-> "none",
                                       result |-> r.metrics]
                                 ELSE [state |-> "finished", exception |-> r.exc,
                                       result |-> NoMetrics]]
         /\ running' = Remove(running, i)
         /\ clock' = max(clock, r.now)
    /\ UNCHANGED <<req, endpoint, numpy, run, queue, yielded, main>>

as_completed_again(fs, done) == {f \in 1..Len(fs) : fs[f].state = "finished"}

\* concurrent.futures.as_completed: the futures that are finished and that it has
\* not yet yielded.
as_completed(fs, done) ==
    {f \in 1..Len(fs) : fs[f].state = "finished" /\ \A k \in 1..Len(done) : done[k] # f}

\* One iteration of the loop over as_completed: metrics = future.result();
\* metrics_list.append(metrics).  result() raises what worker raised.
Collect ==
    /\ run.func = "throughput" /\ run.pc = "collect"
    /\ Len(yielded) < run.num_requests
    /\ \E f \in as_completed(futures, yielded) :
         /\ yielded' = Append(yielded, f)
         /\ run' = IF futures[f].exception = "none"
                   THEN [run EXCEPT !.metrics_list = Append(@, futures[f].result)]
                   ELSE [run EXCEPT !.exc = futures[f].exception, !.pc = "raised"]
    /\ UNCHANGED <<req, endpoint, numpy, clock, futures, queue, running, main>>

\* as_completed is exhausted, the with block shuts the executor down, and
\* end_time is read.
Shutdown ==
    /\ run.func = "throughput" /\ run.pc = "collect"
    /\ Len(yielded) >= run.num_requests
    /\ running = <<>>
    /\ run' = [run EXCEPT !.end_time = clock, !.pc = "aggregate"]
    /\ UNCHANGED <<req, endpoint, numpy, clock, futures, queue, running, yielded, main>>

\* successful = [...]; failed = [...]; total_times = [...]; inference_times = [...];
\* results = {...}; return results
ThroughputAggregate ==
    /\ run.func = "throughput" /\ run.pc = "aggregate"
    /\ \E successful \in {SelectSuccessful(run.metrics_list)} :
       \E failed \in {SelectFailed(run.metrics_list)} :
       \E total_times \in {TotalTimes(successful)} :
       \E inference_times \in {InferenceTimes(successful)} :
       \E vals \in {throughput_statistics(run, successful, total_times, inference_times)} :
         run' = run_return(run, throughput_results(run, successful, failed, vals))
    /\ UNCHANGED <<req, endpoint, numpy, clock, futures, queue, running, yielded, main>>

NumpyBuilds == {"nan", "IndexError"}

\* run_latency_test called with any num_requests, against any endpoint.
InitLatency ==
    /\ req = NoRequest
    /\ numpy \in NumpyBuilds
    /\ clock = 0
    /\ \E n \in 0..MaxRequests :
         /\ endpoint \in [1..n -> RunBehaviours]
         /\ run = latency_call(n, 0)
    /\ futures = <<>> /\ queue = <<>> /\ running = <<>> /\ yielded = <<>>
    /\ main = NoMain

NextLatency == LatencyIter \/ LatencyPredict \/ LatencyAggregate

SpecLatency == InitLatency /\ [][NextLatency]_vars

\* run_throughput_test called with any num_requests and any concurrent_clients >= 1.
InitThroughput ==
    /\ req = NoRequest
    /\ numpy \in NumpyBuilds
    /\ clock = 0
    /\ \E n \in 0..MaxRequests, w \in 1..MaxWorkers :
         /\ endpoint \in [1..n -> RunBehaviours]
         /\ run = throughput_call(n, w, 0)
    /\ futures = <<>> /\ queue = <<>> /\ running = <<>> /\ yielded = <<>>
    /\ main = NoMain

NextThroughput ==
    Submit \/ WorkerTake \/ WorkerFinish \/ Collect \/ Shutdown \/ ThroughputAggregate

SpecThroughput == InitThroughput /\ [][NextThroughput]_vars

\* run_throughput_test against an endpoint that serves every request, every other
\* one later than the rest, with the pool's threads scheduled: a thread that can
\* take a work item does, and a call of predict returns (every attempt has its
\* timeout, the retries are bounded).
ServingEndpoint(n) ==
    [i \in 1..n |-> IF i % 2 = 1
                    THEN Behaviour(Always(Status(200, "score_high")), 1)
                    ELSE Behaviour(Always(Status(200, "score_low")), 2)]

InitPool ==
    /\ InitThroughput
    /\ numpy = "nan"
    /\ endpoint = ServingEndpoint(run.num_requests)

FairPool ==
    InitPool /\ [][NextThroughput]_vars
      /\ WF_vars(WorkerTake) /\ WF_vars(WorkerFinish)

\* The one signal that can stop a run: an interrupt (KeyboardInterrupt) raised in
\* the main thread while it is inside the with block, submitting or waiting in
\* as_completed.  The run takes no cancellation or deadline argument.
Interrupt ==
    /\ run.func = "throughput" /\ run.pc \in {"submit", "collect"}
    /\ run' = [run EXCEPT !.exc = "KeyboardInterrupt", !.pc = "shutdown"]
    /\ UNCHANGED <<req, endpoint, numpy, clock, futures, queue, running, yielded, main>>

\* The with block is left by the exception: ThreadPoolExecutor.__exit__ calls
\* shutdown(wait=True), which cancels nothing and joins the threads; its wake-up
\* item is queued behind the work items, so the threads end only once every
\* queued item has been run.  Then the exception leaves run_throughput_test.
InterruptedShutdown ==
    /\ run.func = "throughput" /\ run.pc = "shutdown"
    /\ queue = <<>> /\ running = <<>>
    /\ run' = [run EXCEPT !.pc = "raised"]
    /\ UNCHANGED <<req, endpoint, numpy, clock, futures, queue, running, yielded, main>>

NextInterrupt == NextThroughput \/ Interrupt \/ InterruptedShutdown

\* run_throughput_test, which an interrupt may stop.
SpecInterrupt == InitThroughput /\ [][NextInterrupt]_vars

\* Either run, called on its own.
InitRuns == InitLatency \/ InitThroughput

NextRuns == NextLatency \/ NextThroughput

SpecRuns == InitRuns /\ [][NextRuns]_vars

(* ------------------------------- the sampler and the encoder on their own -- *)

\* The client __init__ leaves: the attributes prepare_request_payload could touch.
InferenceClient == [endpoint |-> "endpoint", timeout |-> 30, retries |-> total]

\* A caller that makes a transaction and has it encoded twice: the dict it holds,
\* the value the dict had when it was made, what each call returned, the client.
NoEncoding ==
    [pc |-> "make", origin |-> "none", transaction |-> <<>>, made |-> <<>>,
     bodies |-> <<>>, self |-> InferenceClient]

encode_call_consuming(frame) ==
    [frame EXCEPT !.bodies = Append(@, prepare_request_payload(frame.transaction)),
                  !.transaction = <<>>,
                  !.pc = IF frame.pc = "encode" THEN "again" ELSE "encoded"]

\* self.prepare_request_payload(transaction): the payload is built from the values
\* read out of the dict; the dict and self are read, never written.
encode_call(frame) ==
    [frame EXCEPT !.bodies = Append(@, prepare_request_payload(frame.transaction)),
                  !.pc = IF frame.pc = "encode" THEN "again" ELSE "encoded"]

\* transaction = self.generate_sample_transaction(), whatever the random sources give.
SampleTransaction ==
    /\ req.pc = "make"
    /\ \E d \in Draws :
         req' = [req EXCEPT !.origin = "sampler", !.transaction = sample_transaction(d),
                            !.made = sample_transaction(d), !.pc = "encode"]
    /\ UNCHANGED runvars

\* The caller passes a dict of its own making, one that lacks a feature.
GivenTransaction ==
    /\ req.pc = "make"
    /\ \E t \in BrokenTransactions :
         req' = [req EXCEPT !.origin = "caller", !.transaction = t, !.made = t,
                            !.pc = "encode"]
    /\ UNCHANGED runvars

EncodeCall ==
    /\ req.pc \in {"encode", "again"}
    /\ req' = encode_call(req)
    /\ UNCHANGED runvars

InitEncode == req = NoEncoding /\ IdleRun

NextEncode == SampleTransaction \/ GivenTransaction \/ EncodeCall

SpecEncode == InitEncode /\ [][NextEncode]_vars

(* ------------------------------------------ the statistics on their own -- *)

\* The metrics predict returns with success=True after request_time and
\* inference_time ticks, and with success=False after total_time ticks.
SuccessOutcome(request_time, inference_time) ==
    [request_time |-> request_time * Micro, inference_time |-> inference_time * Micro,
     total_time |-> (request_time + inference_time) * Micro,
     success |-> TRUE, error_message |-> "none"]

FailedOutcome(total_time) ==
    [request_time |-> 0, inference_time |-> 0, total_time |-> total_time * Micro,
     success |-> FALSE, error_message |-> str(HTTPError(503))]

CollectedOutcomes ==
    {SuccessOutcome(r, i) : r \in 0..1, i \in 1..MaxSample} \cup {FailedOutcome(1)}

\* A run whose loop is over, with any outcomes in metrics_list: requests were made
\* one at a time from time 0, and end_time has been read.
collected_run(f, ml) ==
    [NoRun EXCEPT !.func = f, !.pc = "aggregate", !.num_requests = Len(ml),
                  !.concurrent_clients = IF f = "throughput" THEN 1 ELSE 0,
                  !.i = Len(ml), !.metrics_list = ml, !.start_time = 0,
                  !.end_time = sum([k \in 1..Len(ml) |-> ml[k].total_time \div Micro])]

InitAggregate ==
    /\ req = NoRequest
    /\ numpy \in NumpyBuilds
    /\ endpoint = <<>>
    /\ \E n \in 0..MaxRequests, f \in {"latency", "throughput"} :
       \E ml \in [1..n -> CollectedOutcomes] :
         /\ run = collected_run(f, ml)
         /\ clock = run.end_time
         /\ futures = IF f = "throughput"
                      THEN [k \in 1..n |-> [state |-> "finished", exception |-> "none",
                                            result |-> ml[k]]]
                      ELSE <<>>
         /\ yielded = IF f = "throughput" THEN [k \in 1..n |-> k] ELSE <<>>
    /\ queue = <<>> /\ running = <<>>
    /\ main = NoMain

NextAggregate == LatencyAggregate \/ ThroughputAggregate

SpecAggregate == InitAggregate /\ [][NextAggregate]_vars

(* ------------------------------------------------------------- main ----- *)

\* client.run_latency_test(num_requests=100)
LatencyRequests == 100

\* The endpoints main is run against: it serves every request, fails every
\* request, or fails every other one.
MainEndpoints(n) ==
    { [i \in 1..n |-> Behaviour(Always(Status(200, "score_high")), 1)],
      [i \in 1..n |-> Behaviour(Always(Status(503, "error")), 1)],
      [i \in 1..n |-> IF i % 2 = 1
                      THEN Behaviour(Always(Status(503, "error")), 1)
                      ELSE Behaviour(Always(Status(200, "score_low")), 2)] }

MainLatencyAsRequested ==
    /\ main.pc = "latency_test"
    /\ IF main.test_type \in {"latency", "both"}
       THEN \E n \in {main.requests} :
              /\ endpoint' \in MainEndpoints(n)
              /\ run' = latency_call(n, clock)
              /\ main' = [main EXCEPT !.pc = "in_latency"]
       ELSE /\ main' = [main EXCEPT !.pc = "throughput_test"]
            /\ UNCHANGED <<endpoint, run>>
    /\ UNCHANGED <<req, numpy, clock, futures, queue, running, yielded>>

\* if args.test_type in ["latency", "both"]: client.run_latency_test(100) is called.
MainLatency ==
    /\ main.pc = "latency_test"
    /\ IF main.test_type \in {"latency", "both"}
       THEN /\ endpoint' \in MainEndpoints(LatencyRequests)
            /\ run' = latency_call(LatencyRequests, clock)
            /\ main' = [main EXCEPT !.pc = "in_latency"]
       ELSE /\ main' = [main EXCEPT !.pc = "throughput_test"]
            /\ UNCHANGED <<endpoint, run>>
    /\ UNCHANGED <<req, numpy, clock, futures, queue, running, yielded>>

MainRunReturnedSaving ==
    /\ main.pc \in {"in_latency", "in_throughput"}
    /\ run.pc = "returned"
    /\ main' = [main EXCEPT !.results = Append(@, run.results),
                            !.file = Append(@, Append(main.results, run.results)),
                            !.pc = IF main.pc = "in_latency" THEN "throughput_test" ELSE "save"]
    /\ UNCHANGED <<req, endpoint, numpy, clock, run, futures, queue, running, yielded>>

\* The run returned: print_results(...); results.append(...).
MainRunReturned ==
    /\ main.pc \in {"in_latency", "in_throughput"}
    /\ run.pc = "returned"
    /\ main' = [main EXCEPT !.results = Append(@, run.results),
                            !.pc = IF main.pc = "in_latency" THEN "throughput_test" ELSE "save"]
    /\ UNCHANGED <<req, endpoint, numpy, clock, run, futures, queue, running, yielded>>

\* The run raised: nothing in main catches it, and the process ends with a
\* traceback and exit status 1.
MainRunRaised ==
    /\ main.pc \in {"in_latency", "in_throughput"}
    /\ run.pc = "raised"
    /\ main' = [main EXCEPT !.crashed_in = IF main.pc = "in_latency" THEN "latency" ELSE "throughput",
                            !.exc = run.exc, !.pc = "crashed"]
    /\ UNCHANGED <<req, endpoint, numpy, clock, run, futures, queue, running, yielded>>

\* if args.test_type in ["throughput", "both"]: client.run_throughput_test(
\* num_requests=args.requests, concurrent_clients=args.concurrent) is called.
MainThroughput ==
    /\ main.pc = "throughput_test"
    /\ IF main.test_type \in {"throughput", "both"}
       THEN \E n \in {main.requests}, w \in {main.concurrent} :
              /\ endpoint' \in MainEndpoints(n)
              /\ run' = throughput_call(n, w, clock)
              /\ main' = [main EXCEPT !.pc = "in_throughput"]
       ELSE /\ main' = [main EXCEPT !.pc = "save"]
            /\ UNCHANGED <<endpoint, run>>
    /\ UNCHANGED <<req, numpy, clock, futures, queue, running, yielded>>

\* if args.output: with open(args.output, "w") as f: json.dump(results, f).
\* --output is absent, a path that can be written, or one that cannot.
MainSave ==
    /\ main.pc = "save"
    /\ \E output \in {"none", "writable", "unwritable"} :
         main' = CASE output = "none" ->
                        [main EXCEPT !.output = output, !.pc = "exited"]
                   [] output = "writable" ->
                        [main EXCEPT !.output = output, !.file = Append(@, main.results),
                                     !.pc = "exited"]
                   [] OTHER ->
                        [main EXCEPT !.output = output, !.crashed_in = "save",
                                     !.exc = "OSError", !.pc = "crashed"]
    /\ UNCHANGED <<req, endpoint, numpy, clock, run, futures, queue, running, yielded>>

\* main, its arguments parsed and the client made: --test-type is one of its
\* three choices, --requests and --concurrent are any integers.
InitMain ==
    /\ req = NoRequest
    /\ numpy \in NumpyBuilds
    /\ clock = 0
    /\ endpoint = <<>> /\ run = NoRun
    /\ futures = <<>> /\ queue = <<>> /\ running = <<>> /\ yielded = <<>>
    /\ main \in {[NoMain EXCEPT !.pc = "latency_test", !.test_type = t,
                                !.requests = n, !.concurrent = w] :
                    t \in {"latency", "throughput", "both"},
                    n \in 0..MaxRequests, w \in 0..MaxWorkers}

NextMain ==
    \/ MainLatency \/ MainRunReturned \/ MainRunRaised \/ MainThroughput \/ MainSave
    \/ LatencyIter \/ LatencyPredict \/ LatencyAggregate
    \/ Submit \/ WorkerTake \/ WorkerFinish \/ Collect \/ Shutdown \/ ThroughputAggregate

SpecMain == InitMain /\ [][NextMain]_vars

(* ------------------------------------------------------ the ONNX export -- *)

\* What a call of export_xgboost_to_onnx finds: whether xgb.Booster loads the model
\* file, whether the onnx helper calls of the native conversion raise, whether
\* os.makedirs makes the directory of the output path (its name may be empty, or
\* not allowed), and whether ONNX Runtime opens a valid file.
ExportWorlds ==
    [model_file : {"loads", "missing"},
     helper : {"works", "raises"},
     directory : {"made", "empty_name", "denied"},
     runtime : {"opens", "fails"}]

\* ModelExporter.__init__
ModelExporter(names) ==
    [feature_names |-> names, num_features |-> Len(names), onnx_model |-> "None"]

_convert_xgboost_native_model(self, world) ==
    IF world.helper = "raises" THEN Raise("Exception") ELSE Val("ModelProto")

\* ModelExporter._convert_xgboost_native: tensor infos are made, and None returned.
_convert_xgboost_native(self, world) ==
    IF world.helper = "raises" THEN Raise("Exception") ELSE Val("None")

\* ModelExporter._convert_xgboost_via_sklearn: a note is printed, and None returned.
_convert_xgboost_via_sklearn(self) == Val("None")

\* ModelExporter._validate_onnx: onnx.load and the checker, then ONNX Runtime, whose
\* failure is printed; a ValidationError is printed and raised again, every other
\* exception of the load leaves as it is.
_validate_onnx(file, world) ==
    CASE file = "absent" -> Raise("FileNotFoundError")
      [] file = "not_onnx" -> Raise("DecodeError")
      [] file = "invalid_onnx" -> Raise("ValidationError")
      [] OTHER -> Val(IF world.runtime = "opens" THEN "verified" ELSE "runtime_failed")

\* A call of export_xgboost_to_onnx(model_path, output_path): the exporter, what
\* it finds, the file at output_path now and at the call, the writes made to it,
\* the conversions called and what each returned, the paths validated and what
\* the validation said.
NewExport(world, file) ==
    [pc |-> "load", self |-> ModelExporter(feature_names), world |-> world,
     output_file |-> file, found |-> file, writes |-> 0, skipped |-> FALSE,
     converted |-> <<>>, validated |-> <<>>, exc |-> "none"]

\* booster = xgb.Booster(model_file=model_path)
ExportLoad ==
    /\ req.pc = "load"
    /\ req' = IF req.world.model_file = "loads"
              THEN [req EXCEPT !.pc = "convert"]
              ELSE [req EXCEPT !.exc = "XGBoostError", !.pc = "raised"]
    /\ UNCHANGED runvars

\* try: self.onnx_model = self._convert_xgboost_native(...)
ExportConvertNative ==
    /\ req.pc = "convert"
    /\ \E res \in {_convert_xgboost_native(req.self, req.world)} :
         req' = IF res.ok
                THEN [req EXCEPT !.self.onnx_model = res.val,
                                 !.converted = Append(@, <<"native", res.val>>),
                                 !.pc = "makedirs"]
                ELSE [req EXCEPT !.converted = Append(@, <<"native", res.exc>>),
                                 !.pc = "fallback"]
    /\ UNCHANGED runvars

\* except Exception: self.onnx_model = self._convert_xgboost_via_sklearn(...)
ExportConvertFallback ==
    /\ req.pc = "fallback"
    /\ \E res \in {_convert_xgboost_via_sklearn(req.self)} :
         req' = [req EXCEPT !.self.onnx_model = res.val,
                            !.converted = Append(@, <<"sklearn", res.val>>),
                            !.pc = "makedirs"]
    /\ UNCHANGED runvars

\* os.makedirs(os.path.dirname(output_path), exist_ok=True)
ExportMakedirs ==
    /\ req.pc = "makedirs"
    /\ req' = CASE req.world.directory = "made" -> [req EXCEPT !.pc = "save"]
                [] req.world.directory = "empty_name" ->
                     [req EXCEPT !.exc = "FileNotFoundError", !.pc = "raised"]
                [] OTHER -> [req EXCEPT !.exc = "PermissionError", !.pc = "raised"]
    /\ UNCHANGED runvars

\* if self.onnx_model: onnx.save(self.onnx_model, output_path)
ExportSave ==
    /\ req.pc = "save"
    /\ req' = IF req.self.onnx_model # "None"
              THEN [req EXCEPT !.output_file = "valid_onnx", !.writes = @ + 1,
                               !.pc = "validate"]
              ELSE [req EXCEPT !.skipped = TRUE, !.pc = "validate"]
    /\ UNCHANGED runvars

\* self._validate_onnx(output_path)
ExportValidate ==
    /\ req.pc = "validate"
    /\ \E res \in {_validate_onnx(req.output_file, req.world)} :
         req' = IF res.ok
                THEN [req EXCEPT !.validated = Append(@, <<"output_path", res.val>>),
                                 !.pc = "returned"]
                ELSE [req EXCEPT !.validated = Append(@, <<"output_path", res.exc>>),
                                 !.exc = res.exc, !.pc = "raised"]
    /\ UNCHANGED runvars

InitExport ==
    /\ req \in {NewExport(w, f) :
                  w \in ExportWorlds,
                  f \in {"absent", "valid_onnx", "invalid_onnx", "not_onnx"}}
    /\ IdleRun

NextExport ==
    \/ ExportLoad \/ ExportConvertNative \/ ExportConvertFallback
    \/ ExportMakedirs \/ ExportSave \/ ExportValidate

SpecExport == InitExport /\ [][NextExport]_vars

(* ------------------------------------------------------------ training -- *)

\* model_type: the two choices of --model-type, and a string that is neither.
ModelTypes == {"xgboost", "lightgbm", "catboost"}

\* What training finds: whether the CSV files load, whether xgb.train trains on
\* the GPU it asks for, whether the test predictions can be scored, whether the
\* output directory can be written, and whether a model file given to load loads.
TrainWorlds ==
    [data : {"loads", "missing"},
     xgb_train : {"trains", "fails"},
     scoring : {"scores", "fails"},
     disk : {"writes", "fails"},
     model_file : {"loads", "missing"}]

\* FraudDetectionModel.__init__
FraudDetectionModel(model_type) ==
    [model_type |-> model_type, model |-> "None", feature_importance |-> "None"]

\* FraudDetectionModel._train_xgboost: self.model = xgb.train(...). A method call
\* leaves the object, the model file, and the exception if it raised.
_train_xgboost(self, world, file) ==
    IF world.xgb_train = "trains"
    THEN [self |-> [self EXCEPT !.model = "trained", !.feature_importance = "scores"],
          file |-> file, exc |-> "none"]
    ELSE [self |-> self, file |-> file, exc |-> "XGBoostError"]

FraudDetectionModel_train_any(self, world, file) == _train_xgboost(self, world, file)

\* FraudDetectionModel.train
FraudDetectionModel_train(self, world, file) ==
    IF self.model_type = "xgboost"
    THEN _train_xgboost(self, world, file)
    ELSE [self |-> self, file |-> file, exc |-> "ValueError"]

\* FraudDetectionModel.predict
FraudDetectionModel_predict(self, world, file) ==
    IF self.model = "None"
    THEN [self |-> self, file |-> file, exc |-> "ValueError"]
    ELSE [self |-> self, file |-> file, exc |-> "none"]

\* FraudDetectionModel.save: the directory is made; an xgboost model is written
\* by self.model.save_model, for any other type nothing is written.
FraudDetectionModel_save(self, world, file) ==
    CASE world.disk = "fails" -> [self |-> self, file |-> file, exc |-> "PermissionError"]
      [] self.model_type # "xgboost" -> [self |-> self, file |-> file, exc |-> "none"]
      [] self.model = "None" -> [self |-> self, file |-> file, exc |-> "AttributeError"]
      [] OTHER -> [self |-> self, file |-> self.model, exc |-> "none"]

\* FraudDetectionModel.load
FraudDetectionModel_load(self, world, file) ==
    CASE self.model_type # "xgboost" -> [self |-> self, file |-> file, exc |-> "none"]
      [] world.model_file = "missing" -> [self |-> self, file |-> file, exc |-> "XGBoostError"]
      [] OTHER -> [self |-> [self EXCEPT !.model = "loaded"], file |-> file, exc |-> "none"]

\* One model object and who drives it, train_model or a user calling its methods:
\* the object, the model file model.bin, the reports written, and the log of the
\* calls made on the object, each with the model it found and what it raised.
NewTraining(caller, model_type, world) ==
    [pc |-> IF caller = "train_model" THEN "load_data" ELSE "calls",
     caller |-> caller, self |-> FraudDetectionModel(model_type), world |-> world,
     model_bin |-> "absent", reports |-> "absent", log |-> <<>>, exc |-> "none"]

\* The frame after a method call: the call is logged, and its effects kept.
called(frame, op, res) ==
    [frame EXCEPT !.self = res.self, !.model_bin = res.file,
                  !.log = Append(@, [op |-> op, before |-> frame.self.model,
                                     exc |-> res.exc])]

\* train_model: the three CSV files are loaded and the model object made.
TrainModelLoadData ==
    /\ req.caller = "train_model" /\ req.pc = "load_data"
    /\ req' = IF req.world.data = "loads"
              THEN [req EXCEPT !.pc = "train"]
              ELSE [req EXCEPT !.exc = "FileNotFoundError", !.pc = "raised"]
    /\ UNCHANGED runvars

\* metrics = model.train(X_train, y_train, X_val, y_val, hyperparameters)
TrainModelTrain ==
    /\ req.caller = "train_model" /\ req.pc = "train"
    /\ \E res \in {FraudDetectionModel_train(req.self, req.world, req.model_bin)} :
         req' = IF res.exc = "none"
                THEN [called(req, "train", res) EXCEPT !.pc = "evaluate"]
                ELSE [called(req, "train", res) EXCEPT !.exc = res.exc, !.pc = "raised"]
    /\ UNCHANGED runvars

\* test_preds = model.predict(X_test), and the scores of the test set.
TrainModelEvaluate ==
    /\ req.caller = "train_model" /\ req.pc = "evaluate"
    /\ \E res \in {FraudDetectionModel_predict(req.self, req.world, req.model_bin)} :
         req' = CASE res.exc # "none" ->
                       [called(req, "predict", res) EXCEPT !.exc = res.exc, !.pc = "raised"]
                  [] req.world.scoring = "fails" ->
                       [called(req, "predict", res) EXCEPT !.exc = "ValueError",
                                                           !.pc = "raised"]
                  [] OTHER -> [called(req, "predict", res) EXCEPT !.pc = "save"]
    /\ UNCHANGED runvars

\* model.save(os.path.join(output_path, "model.bin"))
TrainModelSave ==
    /\ req.caller = "train_model" /\ req.pc = "save"
    /\ \E res \in {FraudDetectionModel_save(req.self, req.world, req.model_bin)} :
         req' = IF res.exc = "none"
                THEN [called(req, "save", res) EXCEPT !.pc = "write_reports"]
                ELSE [called(req, "save", res) EXCEPT !.exc = res.exc, !.pc = "raised"]
    /\ UNCHANGED runvars

\* metrics.json and features.json are written.
TrainModelWriteReports ==
    /\ req.caller = "train_model" /\ req.pc = "write_reports"
    /\ req' = [req EXCEPT !.reports = "written", !.pc = "returned"]
    /\ UNCHANGED runvars

\* A user of the class calls a method of the object and catches what it raises.
CallTrain ==
    /\ req.caller = "user" /\ req.pc = "calls" /\ Len(req.log) < MaxCalls
    /\ req' = called(req, "train",
                     FraudDetectionModel_train(req.self, req.world, req.model_bin))
    /\ UNCHANGED runvars

CallPredict ==
    /\ req.caller = "user" /\ req.pc = "calls" /\ Len(req.log) < MaxCalls
    /\ req' = called(req, "predict",
                     FraudDetectionModel_predict(req.self, req.world, req.model_bin))
    /\ UNCHANGED runvars

CallSave ==
    /\ req.caller = "user" /\ req.pc = "calls" /\ Len(req.log) < MaxCalls
    /\ req' = called(req, "save",
                     FraudDetectionModel_save(req.self, req.world, req.model_bin))
    /\ UNCHANGED runvars

CallLoad ==
    /\ req.caller = "user" /\ req.pc = "calls" /\ Len(req.log) < MaxCalls
    /\ req' = called(req, "load",
                     FraudDetectionModel_load(req.self, req.world, req.model_bin))
    /\ UNCHANGED runvars

InitTrain ==
    /\ req \in {NewTraining(c, t, w) :
                  c \in {"train_model", "user"}, t \in ModelTypes, w \in TrainWorlds}
    /\ IdleRun

NextTrain ==
    \/ TrainModelLoadData \/ TrainModelTrain \/ TrainModelEvaluate \/ TrainModelSave
    \/ TrainModelWriteReports
    \/ CallTrain \/ CallPredict \/ CallSave \/ CallLoad

SpecTrain == InitTrain /\ [][NextTrain]_vars

(* ------------------------------------------------ claims about predict -- *)

\* The transaction has every feature the encoding reads.
Complete(r) == FeatureSet \subseteq DOMAIN r.transaction

\* The first answer of the endpoint to the request.
First(r) == r.script[1]

\* Bodies of a 200 answer without the output tensor, or whose score is no number.
UndecodableBodies ==
    {"not_json", "no_outputs", "empty_outputs", "outputs_object", "no_data",
     "empty_data", "data_string", "top_level_list", "score_string", "score_null",
     "score_list"}

\* An answer that is a failure: no response, a non-2xx status, an undecodable body.
FailedAnswer(a) ==
    \/ a.err # "none"
    \/ a.status < 200 \/ a.status >= 300
    \/ a.body \in UndecodableBodies

\* C3: predict never raises: whatever the transaction and the endpoint do, the call
\* ends by returning, and when the encoding failed or the last attempt's answer was
\* a failure the outcome returned has success = false and the class is negative.
C3_PredictNeverRaises ==
    /\ req.pc # "raised"
    /\ (req.pc = "done" /\ (~Complete(req) \/ FailedAnswer(answer(req.script, req.attempts))))
          => (~req.metrics.success /\ ~req.is_fraud /\ req.metrics.error_message # "none")

\* C3: a call whose encoding failed has returned a failed outcome.
C3_Witness ==
    req.pc = "done" /\ ~Complete(req) /\ req.attempts = 0 /\ ~req.metrics.success

\* C6 (as claimed): answered 503, 503, 200 with a valid score, predict returns
\* success = true after three attempts, and its inference time is at least the two
\* backoff waits.
C6_RetryThenSuccess ==
    (/\ req.pc = "done" /\ Complete(req)
     /\ SubSeq(req.script, 1, 3) =
          <<Status(503, "error"), Status(503, "error"), Status(200, "score_high")>>)
      => /\ req.metrics.success
         /\ req.attempts = 3
         /\ req.metrics.inference_time >=
              (get_backoff_time(1) + get_backoff_time(2)) * Micro

\* C7: a 4xx status other than 429 ends the request at its first attempt: no second
\* attempt is sent, nothing is waited, and the outcome has success = false.
C7_NonRetryableStatusOnce ==
    (Complete(req) /\ First(req).err = "none" /\ First(req).status \in 400..499
       /\ First(req).status # 429)
      => /\ req.attempts <= 1 /\ req.waits = <<>> /\ req.slept = 0
         /\ req.pc = "done" => (req.attempts = 1 /\ ~req.metrics.success)

\* C7: a request answered 400 has returned after its single attempt.
C7_Witness ==
    req.pc = "done" /\ Complete(req) /\ First(req) = Status(400, "error")
      /\ req.attempts = 1 /\ ~req.metrics.success

\* An endpoint every one of whose answers is a retryable failure.
RetryableFailure(a) == a.err = "connect" \/ (a.err = "none" /\ a.status \in status_forcelist)

AlwaysFails(r) == \A k \in 1..Len(r.script) : RetryableFailure(r.script[k])

\* C8 (as claimed): against an endpoint whose every answer is a retryable failure a
\* request makes at most 3 attempts in all.
C8_AtMostThreeAttempts == (Complete(req) /\ AlwaysFails(req)) => req.attempts <= 3

\* C8 (amended): against such an endpoint a request makes at most total + 1 = 4
\* attempts (the first and the 3 retries of the policy), and it ends, with
\* success = false and the last error as its message.
C8_BoundedAttempts ==
    /\ [](Complete(req) /\ AlwaysFails(req) =>
            /\ req.attempts <= total + 1
            /\ req.pc = "done" =>
                  (~req.metrics.success /\ req.metrics.error_message = req.args
                     /\ req.exc \in {"ConnectionError", "HTTPError"}))
    /\ <>(req.pc = "done")

\* C8: a request has ended after total + 1 failed attempts.
C8_Witness ==
    req.pc = "done" /\ Complete(req) /\ AlwaysFails(req) /\ req.attempts = total + 1
      /\ ~req.metrics.success

\* The failures the claim calls retryable: a 5xx status, 429, a connection error.
ClaimedRetryable(a) ==
    a.err = "connect" \/ (a.err = "none" /\ (a.status = 429 \/ a.status \in 500..599))

\* C9 (as claimed): the first attempt, after which retry budget remains, is
\* followed by a second one exactly when it failed with a 5xx status, 429 or a
\* connection error (a failure after the request was sent is left aside).
C9_RetriedIffRetryable ==
    (req.pc = "done" /\ Complete(req) /\ First(req).err # "read")
      => (req.attempts >= 2 <=> ClaimedRetryable(First(req)))

\* C10: a 200 answer whose body lacks the output tensor or whose score is no number
\* is sent once, never waited for or resent, and its outcome has success = false.
C10_UndecodableNotRetried ==
    (Complete(req) /\ First(req).err = "none" /\ First(req).status = 200
       /\ First(req).body \in UndecodableBodies)
      => /\ req.attempts <= 1 /\ req.waits = <<>>
         /\ req.pc = "done" => (req.attempts = 1 /\ ~req.metrics.success /\ ~req.is_fraud)

\* C10: a 200 answer with a string for a score has been returned as a failure.
C10_Witness ==
    req.pc = "done" /\ Complete(req) /\ First(req) = Status(200, "score_string")
      /\ req.attempts = 1 /\ ~req.metrics.success
      /\ req.metrics.error_message = NotComparable(JStr("0.9"))

(* --------------------------------------------------- claims about runs -- *)

\* The loop of the run is over: the statistics are being computed, or the run has
\* returned or raised out of them.
Collected == run.pc \in {"aggregate", "returned", "raised"}

\* What predict returns for request i of the run.
Outcome(i) ==
    predict(RunRequest(CHOOSE t \in RunTransactions : TRUE, i, 0)).metrics

\* C1: run_throughput_test collects exactly num_requests outcomes, whatever the
\* number of workers and the interleaving: as_completed yields no future twice,
\* every entry of metrics_list is the result of the future yielded at that place,
\* which is the outcome of that request, and once the loop is over every one of the
\* num_requests futures has been yielded.
C1_ExactlyNOutcomes ==
    /\ Len(run.metrics_list) = Len(yielded)
    /\ \A j, k \in 1..Len(yielded) : j # k => yielded[j] # yielded[k]
    /\ \A k \in 1..Len(yielded) :
         /\ yielded[k] \in 1..run.num_requests
         /\ run.metrics_list[k] = futures[yielded[k]].result
         /\ run.metrics_list[k] = Outcome(yielded[k])
    /\ Collected =>
         /\ Len(run.metrics_list) = run.num_requests
         /\ {yielded[k] : k \in 1..Len(yielded)} = 1..run.num_requests

\* C1: a run of 3 requests on 2 workers has returned, its outcomes collected out
\* of submission order, a failed one among them.
C1_Witness ==
    /\ run.pc = "returned" /\ run.num_requests = 3 /\ run.concurrent_clients = 2
    /\ yielded = <<2, 3, 1>>
    /\ ~run.metrics_list[1].success /\ run.metrics_list[2].success

\* C2: run_latency_test produces exactly num_requests outcomes, the i-th of them
\* the outcome of the i-th request, and request i + 1 is in flight only once i
\* outcomes have been appended: at most one request is ever in flight.
C2_SequentialInOrder ==
    /\ \A k \in 1..Len(run.metrics_list) : run.metrics_list[k] = Outcome(k)
    /\ Len(run.metrics_list) = run.i
    /\ Cardinality(DOMAIN running) <= 1
    /\ running # <<>> => (run.pc = "predict" /\ DOMAIN running = {Len(run.metrics_list) + 1})
    /\ Collected => Len(run.metrics_list) = run.num_requests

\* C2: a run of 3 requests has returned, the second of them failed.
C2_Witness ==
    /\ run.pc = "returned" /\ run.num_requests = 3
    /\ run.metrics_list[1].success /\ ~run.metrics_list[2].success
    /\ run.metrics_list[3].total_time = 2 * Micro

\* Every statistic of a latency block is NaN.
AllNaN(block) == \A f \in DOMAIN block : block[f].nan

\* C4 (as claimed): when every one of the N >= 1 requests of a run has failed, the
\* statistics are computed without raising and every latency statistic is NaN.
C4_AllFailedStillReported ==
    (/\ run.pc \in {"returned", "raised"}
     /\ run.num_requests >= 1
     /\ Len(run.metrics_list) = run.num_requests
     /\ \A k \in 1..Len(run.metrics_list) : ~run.metrics_list[k].success)
      => /\ run.pc = "returned"
         /\ run.results.successful_requests = 0
         /\ AllNaN(run.results.latency_ms)

\* C5 (as claimed): main runs to its exit whatever requests fail: it ends with an
\* error only for a bad configuration (--requests 0, --concurrent 0) or an output
\* file that cannot be written.  Stated for the numpy whose percentile of no
\* samples is NaN, the build kindest to the claim.
C5_ExitsSuccessfully ==
    (main.pc = "crashed" /\ numpy = "nan") =>
      \/ main.crashed_in = "save"
      \/ main.crashed_in = "throughput" /\ (main.requests = 0 \/ main.concurrent = 0)

(* ---------------------------------------------- claims about statistics -- *)

\* The places of metrics_list whose outcome has success = true.
Successes == {k \in 1..Len(run.metrics_list) : run.metrics_list[k].success}

\* The total times, and the inference times, of the outcomes with success = true,
\* gathered outcome by outcome along metrics_list.
SuccessTotalTimes ==
    LET upto[k \in 0..Len(run.metrics_list)] ==
          IF k = 0 THEN <<>>
          ELSE IF k \in Successes
               THEN Append(upto[k - 1], run.metrics_list[k].total_time)
               ELSE upto[k - 1]
    IN upto[Len(run.metrics_list)]

SuccessInferenceTimes ==
    LET upto[k \in 0..Len(run.metrics_list)] ==
          IF k = 0 THEN <<>>
          ELSE IF k \in Successes
               THEN Append(upto[k - 1], run.metrics_list[k].inference_time)
               ELSE upto[k - 1]
    IN upto[Len(run.metrics_list)]

\* The seven statistics of a sample, and the six of an inference block.
BlockOf(a) ==
    [min |-> percentile_ms(a, 0).val, p50 |-> percentile_ms(a, 50).val,
     p95 |-> percentile_ms(a, 95).val, p99 |-> percentile_ms(a, 99).val,
     max |-> percentile_ms(a, 100).val, mean |-> mean_ms(a).val,
     stdev |-> stdev_ms(a).val]

\* The latency block of a returned run, under the names of the latency report.
ReportedLatency ==
    IF run.func = "latency"
    THEN run.results.latency_ms
    ELSE LET b == run.results.latency
         IN [min |-> b.min_ms, p50 |-> b.p50_ms, p95 |-> b.p95_ms, p99 |-> b.p99_ms,
             max |-> b.max_ms, mean |-> b.mean_ms, stdev |-> b.stdev_ms]

ReportedInference ==
    LET b == run.results.inference_latency
    IN [min |-> b.min_ms, p50 |-> b.p50_ms, p95 |-> b.p95_ms, p99 |-> b.p99_ms,
        max |-> b.max_ms, mean |-> b.mean_ms]

\* C11: in the report a run returns, every statistic of the latency block is the
\* statistic of the total times of exactly the outcomes with success = true, and
\* every statistic of the inference block of a throughput report is the statistic
\* of the inference times of exactly those outcomes: no failed outcome's timing is
\* among the samples.
C11_StatisticsOverSuccesses ==
    run.pc = "returned" =>
      /\ ReportedLatency = BlockOf(SuccessTotalTimes)
      /\ run.func = "throughput" =>
           \A f \in DOMAIN ReportedInference :
             ReportedInference[f] = BlockOf(SuccessInferenceTimes)[f]

\* C11: a throughput run has returned a report with a failed outcome collected
\* whose total time is below the least total time of the successful ones.
C11_Witness ==
    /\ run.pc = "returned" /\ run.func = "throughput"
    /\ Successes # {}
    /\ \E k \in 1..Len(run.metrics_list) :
         /\ ~run.metrics_list[k].success
         /\ run.metrics_list[k].total_time < run.results.latency.min_ms.v * 1000

\* a <= b of two reported numbers.
AtMost(a, b) == ~a.nan /\ ~b.nan /\ a.v <= b.v

Ordered(b) ==
    /\ AtMost(b.min, b.p50) /\ AtMost(b.p50, b.p95)
    /\ AtMost(b.p95, b.p99) /\ AtMost(b.p99, b.max)

Largest(a) == CHOOSE x \in {a[k] : k \in 1..Len(a)} : \A k \in 1..Len(a) : a[k] <= x

\* C12: whenever at least one outcome is successful, the latency block of the
\* report returned has min <= p50 <= p95 <= p99 <= max and its max is the largest
\* total time among the successful outcomes; the same holds of the inference block
\* of a throughput report and the largest inference time.
C12_PercentilesOrdered ==
    (run.pc = "returned" /\ Successes # {}) =>
      /\ Ordered(ReportedLatency)
      /\ ReportedLatency.max.v * 1000 = Largest(SuccessTotalTimes)
      /\ run.func = "throughput" =>
           /\ Ordered(ReportedInference)
           /\ ReportedInference.max.v * 1000 = Largest(SuccessInferenceTimes)

\* C12: a report has been returned over three successful outcomes collected in
\* descending order of total time, whose p50 lies strictly between min and max.
C12_Witness ==
    /\ run.pc = "returned" /\ Cardinality(Successes) = 3
    /\ Len(run.metrics_list) = 3
    /\ run.metrics_list[1].total_time > run.metrics_list[2].total_time
    /\ run.metrics_list[2].total_time > run.metrics_list[3].total_time
    /\ ReportedLatency.min.v < ReportedLatency.p50.v
    /\ ReportedLatency.p50.v < ReportedLatency.p95.v
    /\ ReportedLatency.p95.v < ReportedLatency.max.v

\* The fraction f, as reported by Divide, is the number a / b.
IsQuotient(f, a, b) == ~f.nan /\ b # 0 /\ f.den # 0 /\ f.v * b = a * f.den

\* C13 (as claimed): the success rate of a throughput report is the ratio
\* successes / num_requests, a number between 0 and 1, and its throughput is
\* num_requests / (end_time - start_time).
C13_SuccessRateIsRatio ==
    (run.pc = "returned" /\ run.func = "throughput") =>
      /\ IsQuotient(run.results.success_rate, Cardinality(Successes), run.num_requests)
      /\ run.results.success_rate.v <= run.results.success_rate.den
      /\ IsQuotient(run.results.throughput_rps, run.num_requests,
                    run.end_time - run.start_time)

\* C13 (amended): the success rate of a throughput report is the percentage
\* 100 * successes / num_requests, a number between 0 and 100, and its throughput
\* is num_requests / (end_time - start_time), the requests made (not the
\* successes) over the time from start_time to end_time; a latency report
\* carries neither a success rate nor a throughput.
C13_SuccessRateIsPercentage ==
    /\ (run.pc = "returned" /\ run.func = "throughput") =>
         /\ IsQuotient(run.results.success_rate, 100 * Cardinality(Successes),
                       run.num_requests)
         /\ 0 <= run.results.success_rate.v
         /\ run.results.success_rate.v <= 100 * run.results.success_rate.den
         /\ run.results.successful_requests = Cardinality(Successes)
         /\ run.results.failed_requests = run.num_requests - Cardinality(Successes)
         /\ run.results.total_duration_seconds = run.end_time - run.start_time
         /\ IsQuotient(run.results.throughput_rps, run.num_requests,
                       run.end_time - run.start_time)
    /\ (run.pc = "returned" /\ run.func = "latency") =>
         /\ "success_rate" \notin DOMAIN run.results
         /\ "throughput_rps" \notin DOMAIN run.results

\* C13: a throughput run of 3 requests on 2 workers has returned, 2 of its
\* requests successful, after less time than the requests took in sum.
C13_Witness ==
    /\ run.pc = "returned" /\ run.func = "throughput"
    /\ run.num_requests = 3 /\ run.concurrent_clients = 2
    /\ Cardinality(Successes) = 2
    /\ (run.end_time - run.start_time) * Micro
         < sum([k \in 1..3 |-> run.metrics_list[k].total_time])

\* The collected outcomes with success = false.
Failures == {k \in 1..Len(run.metrics_list) : ~run.metrics_list[k].success}

\* C25: in every report of both modes successful_requests + failed_requests is
\* num_requests, successful_requests is the number of collected outcomes with
\* success = true, and failed_requests the number of those with success = false.
C25_CountsAddUp ==
    run.pc = "returned" =>
      /\ run.results.num_requests = run.num_requests
      /\ run.results.successful_requests + run.results.failed_requests
           = run.results.num_requests
      /\ run.results.successful_requests = Cardinality(Successes)
      /\ run.results.failed_requests = Cardinality(Failures)

\* C25: a latency run of three requests has returned a report with one
\* successful and two failed outcomes collected.
C25_Witness ==
    /\ run.pc = "returned" /\ run.func = "latency"
    /\ run.num_requests = 3
    /\ run.results.successful_requests = 1 /\ run.results.failed_requests = 2

(* ------------------------------------------------- claims about timing -- *)

\* The call returned a successful outcome.
Succeeded(r) == r.pc = "done" /\ r.metrics.success

\* The timestamps of a successful call are in order, t0 read before the encoding,
\* t1 after it and before the first attempt is sent, t2 after the transport has
\* returned, and the inference time reported is t2 - t1.
StampsInOrder(r) ==
    /\ r.request_start = 0
    /\ r.inference_start = r.request_start + r.enc_dur
    /\ r.inference_end = r.inference_start + r.attempts * r.net_dur + r.slept
    /\ r.request_end >= r.inference_end
    /\ r.metrics.request_time = (r.inference_start - r.request_start) * Micro
    /\ r.metrics.inference_time = (r.inference_end - r.inference_start) * Micro
    /\ r.metrics.total_time >= r.metrics.request_time + r.metrics.inference_time

\* C22 (as claimed): the timestamps of a successful call are in order, its last
\* one, t3, is read after decoding and classification, when predict returns, and
\* the total time reported is t3 - t0, decoding included.
C22_TotalIncludesDecode ==
    Succeeded(req) =>
      /\ StampsInOrder(req)
      /\ req.request_end = req.now
      /\ req.metrics.total_time = (req.now - req.request_start) * Micro

\* C22 (amended): the timestamps of a successful call are in order, but its last
\* one, request_end, is read right after inference_end, before the status check,
\* the decoding and the classification: the total time reported is
\* request_end - request_start, it leaves out the time from there to the return
\* of predict, and it is at least the encode time plus the inference time.
C22_TotalExcludesDecode ==
    Succeeded(req) =>
      /\ StampsInOrder(req)
      /\ req.now = req.request_end + req.dec_dur
      /\ req.metrics.total_time = (req.request_end - req.request_start) * Micro
      /\ req.metrics.total_time = (req.now - req.dec_dur - req.request_start) * Micro

\* C22: a call whose encoding, single attempt and decoding took one tick each
\* has returned a successful outcome with a total time of two ticks.
C22_Witness ==
    /\ Succeeded(req)
    /\ req.enc_dur = 1 /\ req.net_dur = 1 /\ req.dec_dur = 1 /\ req.attempts = 1
    /\ req.now = 3
    /\ req.metrics.total_time = 2 * Micro

(* ------------------------------- claims about the sampler and the encoder -- *)

FloatInput(body) == body.val.inputs[1]

\* C15: the body encoded from a sampled transaction carries one input, named
\* float_input, of shape [1, 15] and datatype FP32, whose data is a single row of
\* 15 values, the k-th of them the transaction's value of the k-th feature of
\* FeatureEngineer.get_feature_list; the encoder's list of names is that list, and
\* the keys of a sampled transaction are exactly its 15 names.
C15_PositionalSchema ==
    /\ feature_names = get_feature_list
    /\ (req.pc \in {"again", "encoded"} /\ req.origin = "sampler") =>
         /\ DOMAIN req.made = {get_feature_list[k] : k \in 1..Len(get_feature_list)}
         /\ Cardinality(DOMAIN req.made) = 15
         /\ req.bodies[1].ok
         /\ Len(req.bodies[1].val.inputs) = 1
         /\ FloatInput(req.bodies[1]).name = "float_input"
         /\ FloatInput(req.bodies[1]).shape = <<1, 15>>
         /\ FloatInput(req.bodies[1]).datatype = "FP32"
         /\ Len(FloatInput(req.bodies[1]).data) = 1
         /\ Len(FloatInput(req.bodies[1]).data[1]) = 15
         /\ \A k \in 1..15 :
              FloatInput(req.bodies[1]).data[1][k] = req.made[get_feature_list[k]]

\* C15: a transaction sampled with amount 1, hour 23, is_night 1 and
\* total_risk_factors 4 has been encoded, those values at places 1, 4, 7 and 15.
C15_Witness ==
    /\ req.pc = "again" /\ req.origin = "sampler"
    /\ req.made.amount = 1 /\ req.made.hour = 23 /\ req.made.is_night = 1
    /\ req.made.total_risk_factors = 4
    /\ req.bodies[1].ok
    /\ FloatInput(req.bodies[1]).data[1][1] = 1
    /\ FloatInput(req.bodies[1]).data[1][4] = 23
    /\ FloatInput(req.bodies[1]).data[1][7] = 1
    /\ FloatInput(req.bodies[1]).data[1][15] = 4

\* C18 (as claimed): the derived fields of a sampled transaction are computed from
\* its own amount and hour: is_night is 1 exactly when its hour is below 6,
\* log_amount is log1p of its amount, amount_squared is its amount squared.
C18_DerivedFromOwnFields ==
    (req.pc \in {"encode", "again", "encoded"} /\ req.origin = "sampler") =>
      /\ req.made.is_night = (IF req.made.hour < 6 THEN 1 ELSE 0)
      /\ req.made.log_amount = log1p(req.made.amount)
      /\ req.made.amount_squared = req.made.amount * req.made.amount

(* ------------------------------------------- claims about classification -- *)

\* The answer the call of predict ended on.
LastAnswer(r) == answer(r.script, r.attempts)

\* The score of a body, in tenths: the number at result["outputs"][0]["data"][0],
\* JSON true counting as 1.
ScoreTenths(b) ==
    LET score == fraud_score(b).val
    IN IF score.t = "bool" THEN (IF score.v THEN 10 ELSE 0) ELSE score.v

Failed(r) == r.pc = "done" /\ ~r.metrics.success

\* The call has been handed an HTTP response by the transport.
ResponseReceived(r) == r.response.err = "none" /\ r.response.status # 0

\* The class of the error taxonomy a failed call belongs to, by what happened to
\* it: the encoding failed, the last attempt got no response, the response had a
\* retryable status (429, 5xx) or another error status, or its body did not decode.
FailureClass(r) ==
    CASE ~Complete(r) -> "encoding error"
      [] LastAnswer(r).err # "none" -> "transport error"
      [] LastAnswer(r).status = 429 \/ LastAnswer(r).status \in 500..599 ->
            "retryable-status exhaustion"
      [] LastAnswer(r).status \in 400..499 -> "non-retryable status"
      [] OTHER -> "response decode error"

StatusReasons(statuses) ==
    {HTTPError(s).args : s \in statuses} \cup {RetryError(s).args : s \in statuses}

\* The class an error reason stands for: the name of a missing feature for an
\* encoding error, the texts of a connection failure and of a timeout for a
\* transport error, the text of a status error by the status it names, and every
\* other text for a decode error.
ReasonClass(m) ==
    CASE m \in {QuotedKey(feature_names[k]) : k \in 1..Len(feature_names)} ->
            "encoding error"
      [] m \in {ConnectionError.args, ReadTimeout.args} -> "transport error"
      [] m \in StatusReasons({429} \cup 500..599) -> "retryable-status exhaustion"
      [] m \in StatusReasons((400..499) \ {429}) -> "non-retryable status"
      [] OTHER -> "response decode error"

\* The parts of C23 apart from exhaustion: a failed outcome has success = false and
\* a reason, the reason stands for the class of the failure, and the inference
\* time is 0 when no response was received.
FailureReasonGiven ==
    Failed(req) =>
      /\ ~req.metrics.success
      /\ req.metrics.error_message \notin {"none", "unset", ""}
      /\ ReasonClass(req.metrics.error_message) = FailureClass(req)
      /\ ~ResponseReceived(req) => req.metrics.inference_time = 0

\* C23 (as claimed): every failed outcome carries success = false and an error
\* reason that classifies the failure into the taxonomy (encoding error,
\* transport error, retryable-status exhaustion, non-retryable status, response
\* decode error), a failure classified as retryable-status exhaustion being one
\* whose retry budget is exhausted; its inference time is 0 when the failure
\* happened before any response was received.
C23_ReasonClassifiesFailure ==
    /\ FailureReasonGiven
    /\ (Failed(req) /\ FailureClass(req) = "retryable-status exhaustion")
          => (req.retries_left < 0 /\ req.attempts = total + 1)

\* The waits of a request are in step with its attempts: the k-th resend is sent
\* only after the k-th wait, and the waits grow strictly from retry to retry.
WaitsPrecedeRetries(r) ==
    /\ Len(r.waits) = IF r.pc = "send" \/ r.attempts = 0 THEN r.attempts
                      ELSE r.attempts - 1
    /\ \A k \in 1..(Len(r.waits) - 1) : r.waits[k] < r.waits[k + 1]

\* C24 (as claimed): the wait before the k-th resend of a logical request, k
\* counting its failed attempts so far, is base * 2^(k-1); the waits are strictly
\* increasing and every retry is preceded by its wait.
C24_BackoffEveryRetry ==
    /\ WaitsPrecedeRetries(req)
    /\ \A k \in 1..Len(req.waits) : req.waits[k] = backoff_factor * 2^(k - 1)

\* C24 (amended): the first resend follows its failed attempt without a wait, and
\* the wait before the k-th resend, k >= 2, is base * 2^(k-1); the waits are
\* strictly increasing and every retry is preceded by its wait.
C24_BackoffFromSecondRetry ==
    /\ WaitsPrecedeRetries(req)
    /\ \A k \in 1..Len(req.waits) :
          req.waits[k] = IF k = 1 THEN 0 ELSE backoff_factor * 2^(k - 1)

\* C24: a request has spent its whole retry budget, after waits of 0, 2 and 4.
C24_Witness ==
    /\ req.pc = "done" /\ req.attempts = total + 1
    /\ req.waits = <<0, 2 * backoff_factor, 4 * backoff_factor>>
    /\ req.slept = 6 * backoff_factor

\* The call got as far as decoding the body of a response.
DecodeReached(r) == ResponseReceived(r) /\ r.response.status \notin 400..599

\* C26: every outcome predict returns on a failure path has inference_time = 0
\* and request_time = 0, also when a response was received (an error status or an
\* undecodable body), while its total_time spans from request_start to the moment
\* the failure was caught: the encoding, every attempt and wait, and the decoding
\* when it was reached.
C26_FailureTimesZeroed ==
    Failed(req) =>
      /\ req.metrics.inference_time = 0
      /\ req.metrics.request_time = 0
      /\ req.request_end = req.now
      /\ req.metrics.total_time = (req.request_end - req.request_start) * Micro
      /\ req.metrics.total_time =
           (req.enc_dur + req.attempts * req.net_dur + req.slept
              + (IF DecodeReached(req) THEN req.dec_dur ELSE 0)) * Micro

\* C26: a call whose 200 answer did not decode has returned a failed outcome with
\* both times 0 and a total time of the encoding, the attempt and the decoding.
C26_Witness ==
    /\ Failed(req) /\ DecodeReached(req)
    /\ req.enc_dur = 1 /\ req.net_dur = 1 /\ req.dec_dur = 1 /\ req.attempts = 1
    /\ req.metrics.inference_time = 0 /\ req.metrics.request_time = 0
    /\ req.metrics.total_time = 3 * Micro

(* --------------------------------------------- claims about scheduling --- *)

\* The run has been told to stop.
Cancelled == run.func = "throughput" /\ run.exc = "KeyboardInterrupt"

\* C17 (as claimed): once the throughput run has been told to stop, no request
\* that is still pending is dispatched: the queue of work items stays as it is.
C17_NoDispatchAfterCancel == [][Cancelled => queue' = queue]_vars

\* The work items not yet taken by a thread.
Pending == {queue[k] : k \in 1..Len(queue)}

\* C20: in run_throughput_test at most concurrent_clients requests are executing
\* predict at any moment, no request is both pending and executing, and no
\* thread stays idle while work is pending: whenever work items are in the queue
\* they are taken, by the threads that are free or that finish their requests,
\* until none is pending.
C20_BoundedGreedyPool ==
    /\ [](Cardinality(DOMAIN running) <= run.concurrent_clients)
    /\ [](DOMAIN running \cap Pending = {})
    /\ (Pending # {}) ~> (Pending = {})

\* C20: with 3 requests on 2 workers, two requests are executing while the third
\* is pending.
C20_Witness ==
    /\ run.func = "throughput" /\ run.concurrent_clients = 2
    /\ DOMAIN running = {1, 2} /\ queue = <<3>>

\* C21 (as claimed): run_throughput_test computes no statistic and does not return
\* before all num_requests outcomes are collected; the duration it reports runs
\* from start_time, read before the first submit, to end_time, read after the
\* last outcome was collected; and a run of requests that all terminate ends by
\* returning its report, never by raising.
C21_ReturnsAfterAllCollected ==
    /\ run.pc \in {"aggregate", "returned"} =>
         /\ Len(run.metrics_list) = run.num_requests
         /\ queue = <<>> /\ running = <<>>
         /\ run.start_time = 0 /\ run.end_time = clock
    /\ run.pc = "returned" =>
         run.results.total_duration_seconds = run.end_time - run.start_time
    /\ run.num_requests >= 1 => run.pc # "raised"

(* ---------------------------------------------------- claims about main -- *)

\* The modes --test-type selects, in the order main runs them.
SelectedModes ==
    CASE main.test_type = "latency" -> <<"latency">>
      [] main.test_type = "throughput" -> <<"throughput">>
      [] main.test_type = "both" -> <<"latency", "throughput">>
      [] OTHER -> <<>>

Issued == run.pc \in {"aggregate", "returned"} \/ (run.pc = "raised" /\ run.i > 0)

\* C27: in main the latency test issues exactly 100 requests whatever --requests
\* and --concurrent are, the throughput test (run on at least one worker) issues
\* exactly --requests requests, and with test type "both" no throughput request
\* is dispatched before the latency test has run to completion and returned its
\* report of 100 outcomes.
C27_MainRequestCounts ==
    /\ main.pc = "in_latency" =>
         /\ run.func = "latency" /\ run.num_requests = 100
         /\ run.i <= 100 /\ Len(run.metrics_list) <= 100
         /\ Issued => (run.i = 100 /\ Len(run.metrics_list) = 100)
    /\ main.pc = "in_throughput" =>
         /\ run.func = "throughput"
         /\ run.num_requests = main.requests
         /\ run.concurrent_clients = main.concurrent
         /\ Len(futures) <= main.requests
         /\ (main.concurrent >= 1 /\ Issued) =>
              (Len(futures) = main.requests /\ Len(run.metrics_list) = main.requests)
    /\ (main.test_type = "both" /\ run.func = "throughput") =>
         /\ Len(main.results) >= 1
         /\ main.results[1].test_type = "latency"
         /\ main.results[1].num_requests = 100
         /\ main.results[1].successful_requests + main.results[1].failed_requests = 100
    /\ (main.test_type = "both" /\ run.func = "latency") =>
         (futures = <<>> /\ queue = <<>>)

\* C27: main run with test type "both", --requests 3 and --concurrent 2 has
\* collected the three outcomes of its throughput test after its latency test
\* returned the report of its 100 requests.
C27_Witness ==
    /\ main.test_type = "both" /\ main.pc = "in_throughput"
    /\ main.requests = 3 /\ main.concurrent = 2
    /\ run.pc = "returned" /\ Len(run.metrics_list) = 3
    /\ main.results[1].num_requests = 100

(* ------------------------------------------------ claims about the export -- *)

CallsOf(op) == {k \in 1..Len(req.log) : req.log[k].op = op}

\* A call of train has returned.
Trained == \E k \in CallsOf("train") : req.log[k].exc = "none"

====
